---- MODULE Spec2Model ----
(***************************************************************************)
(* Model of pkg/gcv/validator.go: the multi-target review orchestrator.    *)
(*                                                                         *)
(* Two specifications:                                                     *)
(*   Spec      the review entry points of a constructed Validator          *)
(*   SpecBoot  NewValidatorFromConfig / newCFClient (construction)         *)
(*                                                                         *)
(* A Go string is modelled as the non-empty sequence of its "/"-separated  *)
(* segments (strings.Split(s, "/")): "" is <<"">>, "a/b" is <<"a","b">>.   *)
(* A value of a map[string]interface{} is a record [kind, val] with        *)
(* kind "absent" (key missing), "string", "slice" ([]interface{} holding   *)
(* only strings), "map" or "other" (any other dynamic type).               *)
(***************************************************************************)
EXTENDS Integers, Sequences, FiniteSets, TLC

VARIABLES validator, call, pc, config, dom, idx, errs, added, clients, ret

vars == <<validator, call, pc, config, dom, idx, errs, added, clients, ret>>
reviewVars == <<validator, call>>
bootVars == <<pc, config, dom, idx, errs, added, clients, ret>>

-----------------------------------------------------------------------------
(* Bounds *)
MaxAncestors == 2
MaxResponses == 1
MaxTemplates == 2
MaxConstraints == 2

-----------------------------------------------------------------------------
(* Keys and target names *)
ancestryPathKey == "ancestry_path"
ancestorSliceKey == "ancestors"

GCPTargetName == "validation.gcp.forsetisecurity.org"
K8STargetName == "admission.k8s.gatekeeper.sh"
TFTargetName == "validation.resourcechange.terraform.cloud.google.com"

-----------------------------------------------------------------------------
(* Dynamic values *)
Absent == [kind |-> "absent", val |-> <<>>]
Other == [kind |-> "other", val |-> <<>>]
Str(s) == [kind |-> "string", val |-> s]
Slice(q) == [kind |-> "slice", val |-> q]

EmptyString == <<"">>

SeqsUpTo(S, n) == UNION {[1..k -> S] : k \in 0..n}

AncestorIds == {<<"project", "3">>, <<"organization", "1">>}
PathStrings == {EmptyString, <<"organization", "1">>,
                <<"organizations", "1", "folder", "2">>}
NameStrings == {<<"a">>, <<"k">>}
K8SAssetType == <<"k8s.io", "Pod">>
GCPAssetType == <<"compute.googleapis.com", "Instance">>

AncestorsValues == {Absent, Other} \cup {Slice(q) : q \in SeqsUpTo(AncestorIds, MaxAncestors)}
AncestryPathValues == {Absent, Other} \cup {Str(s) : s \in PathStrings}
NameValues == {Absent, Other} \cup {Str(s) : s \in NameStrings}
AssetTypeValues == {Absent, Str(K8SAssetType), Str(GCPAssetType)}
(* "resource" stands for resource.data; val is the object's metadata.name *)
ResourceValues == {Absent} \cup {[kind |-> "map", val |-> s] : s \in NameStrings}

Assets == [ancestors : AncestorsValues, ancestry_path : AncestryPathValues,
           name : NameValues, asset_type : AssetTypeValues,
           resource : ResourceValues]

AddressValues == {Absent, Other, Str(<<"google_compute_instance.vm">>)}
TFResources == [address : AddressValues]

Responses == SeqsUpTo({"c1"}, MaxResponses)

-----------------------------------------------------------------------------
(* unstructured.NestedStringSlice / NestedString on a top-level key *)
NestedStringSlice(input, key) ==
    LET v == input[key] IN
    IF v.kind = "absent" THEN [val |-> <<>>, found |-> FALSE, err |-> FALSE]
    ELSE IF v.kind = "slice" THEN [val |-> v.val, found |-> TRUE, err |-> FALSE]
    ELSE [val |-> <<>>, found |-> FALSE, err |-> TRUE]

NestedString(input, key) ==
    LET v == input[key] IN
    IF v.kind = "absent" THEN [val |-> EmptyString, found |-> FALSE, err |-> FALSE]
    ELSE IF v.kind = "string" THEN [val |-> v.val, found |-> TRUE, err |-> FALSE]
    ELSE [val |-> EmptyString, found |-> FALSE, err |-> TRUE]

(* strings.Join(list, "/") on the segment representation *)
RECURSIVE Join(_)
Join(list) ==
    IF Len(list) = 0 THEN EmptyString
    ELSE IF Len(list) = 1 THEN list[1]
    ELSE list[1] \o Join(Tail(list))

Reverse(q) == [i \in 1..Len(q) |-> q[Len(q) - i + 1]]

(* asset.AncestryPath: the ancestors list is leaf first, the path root first *)
AncestryPath(ancestors) == Join(Reverse(ancestors))

(* configs.NormalizeAncestry: "organization/" -> "organizations/", etc. *)
Plural(seg) ==
    IF seg = "organization" THEN "organizations"
    ELSE IF seg = "folder" THEN "folders"
    ELSE IF seg = "project" THEN "projects"
    ELSE seg

NormalizeAncestry(s) ==
    [i \in 1..Len(s) |-> IF i < Len(s) THEN Plural(s[i]) ELSE s[i]]

-----------------------------------------------------------------------------
(* Collaborators outside validator.go *)

(* asset.IsK8S: the asset_type marker follows the Kubernetes convention *)
IsK8S(asset) ==
    LET t == NestedString(asset, "asset_type") IN
    t.found /\ ~t.err /\ t.val[1] = "k8s.io"

(* asset.ConvertCAIToK8s: the object under resource.data becomes the          *)
(* Kubernetes object; name is the object's display name (metadata.name)       *)
ConvertCAIToK8s(asset) ==
    IF asset.resource.kind = "map"
    THEN [err |-> FALSE, object |-> [name |-> asset.resource.val]]
    ELSE [err |-> TRUE, object |-> [name |-> EmptyString]]

(* tftarget.HandleReview: the (handled, err) pairs the interface allows for   *)
(* an input; an input without a string "address" is not a planned change      *)
HandleReviewOutcomes(inputResource) ==
    IF NestedString(inputResource, "address").found
    THEN [handled : BOOLEAN, err : BOOLEAN]
    ELSE [handled : {FALSE}, err : BOOLEAN]

NoResult == [target |-> "", name |-> EmptyString, input |-> <<>>,
             reviewed |-> <<>>, responses |-> <<>>]

(* NewResult: wraps its arguments; it may reject the responses *)
NewResult(target, name, input, reviewed, responses, ok) ==
    IF ok
    THEN [err |-> "", result |-> [target |-> target, name |-> name, input |-> input,
                                  reviewed |-> reviewed, responses |-> responses]]
    ELSE [err |-> "result", result |-> NoResult]

(* Result.ToViolations: one violation per raw response, in input order; it    *)
(* may fail on a response it cannot convert                                   *)
ToViolations(result, ok) ==
    IF ok
    THEN [err |-> "", violations |->
            [i \in 1..Len(result.responses) |->
                [constraint |-> result.responses[i], resource |-> result.name]]]
    ELSE [err |-> "violations", violations |-> <<>>]

(* cfclient.Client.Review: the call is recorded; the engine decides the outcome *)
Review(client, env) ==
    [err |-> ~env.reviewOk, responses |-> env.responses, calls |-> <<client.target>>]

(* What the collaborators answer during one call. ReviewUnmarshalledJSON and  *)
(* ReviewJSON return the Result itself and call neither ToViolations nor the  *)
(* conversion via JSON; ReviewTFResourceChange calls ToViolations; ReviewAsset *)
(* calls both                                                                 *)
Envs == [reviewOk : BOOLEAN, responses : Responses, newResultOk : BOOLEAN,
         violationsOk : {TRUE}, convertOk : {TRUE}]
TFEnvs == [reviewOk : BOOLEAN, responses : Responses, newResultOk : BOOLEAN,
           violationsOk : BOOLEAN, convertOk : {TRUE}]
AssetEnvs == [reviewOk : BOOLEAN, responses : Responses, newResultOk : BOOLEAN,
              violationsOk : BOOLEAN, convertOk : BOOLEAN]

(* validator.Asset, the typed message ReviewAsset takes: a string field is a  *)
(* string ("" when unset), ancestors a list of strings, resource set or not   *)
TypedAssets == [name : {EmptyString} \cup NameStrings,
                asset_type : {EmptyString, K8SAssetType, GCPAssetType},
                ancestry_path : PathStrings,
                ancestors : SeqsUpTo(AncestorIds, MaxAncestors),
                resource : ResourceValues]

(* asset.SanitizeAncestryPath: the path is filled from the ancestors when     *)
(* there are any, else an existing path is normalized, else it fails          *)
SanitizeAncestryPath(asset) ==
    IF asset.ancestors # <<>>
    THEN [err |-> FALSE,
          asset |-> [asset EXCEPT !.ancestry_path = AncestryPath(asset.ancestors)]]
    ELSE IF asset.ancestry_path # EmptyString
    THEN [err |-> FALSE,
          asset |-> [asset EXCEPT !.ancestry_path = NormalizeAncestry(asset.ancestry_path)]]
    ELSE [err |-> TRUE, asset |-> asset]

(* asset.ValidateAsset: the required fields are set *)
ValidateAsset(asset) ==
    [err |-> \/ asset.name = EmptyString
             \/ asset.asset_type = EmptyString
             \/ asset.ancestry_path = EmptyString]

(* asset.ConvertResourceViaJSONToInterface: the message as a JSON object;     *)
(* unset fields are left out                                                  *)
ConvertResourceViaJSONToInterface(asset, ok) ==
    IF ~ok THEN [err |-> TRUE, value |-> <<>>]
    ELSE [err |-> FALSE,
          value |-> [name |-> IF asset.name = EmptyString THEN Absent
                              ELSE Str(asset.name),
                     asset_type |-> IF asset.asset_type = EmptyString THEN Absent
                                    ELSE Str(asset.asset_type),
                     ancestry_path |-> IF asset.ancestry_path = EmptyString THEN Absent
                                       ELSE Str(asset.ancestry_path),
                     ancestors |-> IF asset.ancestors = <<>> THEN Absent
                                   ELSE Slice(asset.ancestors),
                     resource |-> asset.resource]]

-----------------------------------------------------------------------------
(* What a call of an entry point leaves behind.                              *)
(* returned: "result", "violations", "error" or "panic"                      *)
Outcome(returned, err, result, violations, reviews, asset) ==
    [returned |-> returned, err |-> err, result |-> result,
     violations |-> violations, reviews |-> reviews, asset |-> asset]

(* Mutant of fixAncestry: an existing path string is kept, the sequence is   *)
(* used only when there is none                                              *)
fixAncestry_pathFirst(input) ==
    LET anc == NestedStringSlice(input, ancestorSliceKey)
        path == NestedString(input, ancestryPathKey) IN
    IF path.found /\ ~path.err
    THEN [err |-> FALSE,
          input |-> [input EXCEPT ![ancestryPathKey] = Str(NormalizeAncestry(path.val))]]
    ELSE IF anc.found /\ ~anc.err
    THEN [err |-> FALSE,
          input |-> [input EXCEPT ![ancestryPathKey] = Str(AncestryPath(anc.val))]]
    ELSE [err |-> TRUE, input |-> input]

(* Validator.fixAncestry: err, and the map after the in-place update *)
fixAncestry(input) ==
    LET anc == NestedStringSlice(input, ancestorSliceKey)
        path == NestedString(input, ancestryPathKey) IN
    IF anc.found /\ ~anc.err
    THEN [err |-> FALSE,
          input |-> [input EXCEPT ![ancestryPathKey] = Str(AncestryPath(anc.val))]]
    ELSE IF path.found /\ ~path.err
    THEN [err |-> FALSE,
          input |-> [input EXCEPT ![ancestryPathKey] = Str(NormalizeAncestry(path.val))]]
    ELSE [err |-> TRUE, input |-> input]

(* Validator.reviewK8SResource *)
reviewK8SResource(v, asset, env) ==
    LET conv == ConvertCAIToK8s(asset)
        rev == Review(v.k8sCFClient, env)
        res == NewResult(K8STargetName, asset.name.val, asset, conv.object,
                         rev.responses, env.newResultOk) IN
    IF conv.err THEN Outcome("error", "convert", NoResult, <<>>, <<>>, asset)
    ELSE IF rev.err THEN Outcome("error", "review", NoResult, <<>>, rev.calls, asset)
    ELSE IF asset.name.kind # "string"
    THEN Outcome("panic", "", NoResult, <<>>, rev.calls, asset)
    ELSE IF res.err # "" THEN Outcome("error", res.err, NoResult, <<>>, rev.calls, asset)
    ELSE Outcome("result", "", res.result, <<>>, rev.calls, asset)

(* Validator.reviewGCPResource *)
reviewGCPResource(v, asset, env) ==
    LET rev == Review(v.gcpCFClient, env)
        res == NewResult(GCPTargetName, asset.name.val, asset, asset,
                         rev.responses, env.newResultOk) IN
    IF rev.err THEN Outcome("error", "review", NoResult, <<>>, rev.calls, asset)
    ELSE IF asset.name.kind # "string"
    THEN Outcome("panic", "", NoResult, <<>>, rev.calls, asset)
    ELSE IF res.err # "" THEN Outcome("error", res.err, NoResult, <<>>, rev.calls, asset)
    ELSE Outcome("result", "", res.result, <<>>, rev.calls, asset)

(* Mutant of ReviewUnmarshalledJSON: the error of fixAncestry is dropped *)
reviewUnmarshalledJSON_ignoreAncestryErr(v, asset, env) ==
    LET fixed == fixAncestry(asset) IN
    IF IsK8S(fixed.input) THEN reviewK8SResource(v, fixed.input, env)
    ELSE reviewGCPResource(v, fixed.input, env)

(* Mutant of ReviewUnmarshalledJSON: every asset takes the GCP path *)
reviewUnmarshalledJSON_alwaysGCP(v, asset, env) ==
    LET fixed == fixAncestry(asset) IN
    IF fixed.err THEN Outcome("error", "ancestry", NoResult, <<>>, <<>>, fixed.input)
    ELSE reviewGCPResource(v, fixed.input, env)

(* Validator.ReviewUnmarshalledJSON *)
reviewUnmarshalledJSON(v, asset, env) ==
    LET fixed == fixAncestry(asset) IN
    IF fixed.err THEN Outcome("error", "ancestry", NoResult, <<>>, <<>>, fixed.input)
    ELSE IF IsK8S(fixed.input) THEN reviewK8SResource(v, fixed.input, env)
    ELSE reviewGCPResource(v, fixed.input, env)

(* Validator.ReviewAsset: funnel says whether ReviewUnmarshalledJSON was      *)
(* reached, arg is the map handed to it                                       *)
reviewAsset(v, asset, env) ==
    LET san == SanitizeAncestryPath(asset)
        val == ValidateAsset(san.asset)
        conv == ConvertResourceViaJSONToInterface(san.asset, env.convertOk)
        r == reviewUnmarshalledJSON(v, conv.value, env)
        vio == ToViolations(r.result, env.violationsOk)
        stop(err) == [funnel |-> FALSE, arg |-> <<>>,
                      out |-> Outcome("error", err, NoResult, <<>>, <<>>, <<>>)] IN
    IF san.err THEN stop("sanitize")
    ELSE IF val.err THEN stop("validate")
    ELSE IF conv.err THEN stop("convert-json")
    ELSE [funnel |-> TRUE, arg |-> conv.value,
          out |-> IF r.returned # "result" THEN r
                  ELSE IF vio.err # ""
                  THEN Outcome("error", vio.err, NoResult, <<>>, r.reviews, r.asset)
                  ELSE Outcome("violations", "", r.result, vio.violations,
                               r.reviews, r.asset)]

(* Mutant of ReviewTFResourceChange: the handled flag is not looked at *)
reviewTFResourceChange_noHandledCheck(v, inputResource, hr, env) ==
    LET rev == Review(v.tfCFClient, env)
        res == NewResult(TFTargetName, inputResource.address.val, inputResource,
                         inputResource, rev.responses, env.newResultOk)
        vio == ToViolations(res.result, env.violationsOk) IN
    IF rev.err
    THEN Outcome("error", "review", NoResult, <<>>, rev.calls, inputResource)
    ELSE IF inputResource.address.kind # "string"
    THEN Outcome("panic", "", NoResult, <<>>, rev.calls, inputResource)
    ELSE IF res.err # ""
    THEN Outcome("error", res.err, NoResult, <<>>, rev.calls, inputResource)
    ELSE IF vio.err # ""
    THEN Outcome("error", vio.err, NoResult, <<>>, rev.calls, inputResource)
    ELSE Outcome("violations", "", res.result, vio.violations, rev.calls, inputResource)

(* Validator.ReviewTFResourceChange *)
reviewTFResourceChange(v, inputResource, hr, env) ==
    LET rev == Review(v.tfCFClient, env)
        res == NewResult(TFTargetName, inputResource.address.val, inputResource,
                         inputResource, rev.responses, env.newResultOk)
        vio == ToViolations(res.result, env.violationsOk) IN
    IF ~hr.handled THEN Outcome("error", "unhandled", NoResult, <<>>, <<>>, inputResource)
    ELSE IF rev.err
    THEN Outcome("error", "review", NoResult, <<>>, rev.calls, inputResource)
    ELSE IF inputResource.address.kind # "string"
    THEN Outcome("panic", "", NoResult, <<>>, rev.calls, inputResource)
    ELSE IF res.err # ""
    THEN Outcome("error", res.err, NoResult, <<>>, rev.calls, inputResource)
    ELSE IF vio.err # ""
    THEN Outcome("error", vio.err, NoResult, <<>>, rev.calls, inputResource)
    ELSE Outcome("violations", "", res.result, vio.violations, rev.calls, inputResource)

-----------------------------------------------------------------------------
(* The constructed Validator: one client handle per target *)
Client(target) == [target |-> target]

NoValidator == [gcpCFClient |-> Client(""), k8sCFClient |-> Client(""),
                tfCFClient |-> Client("")]

NoCall == [op |-> "none", input |-> <<>>, funnel |-> FALSE, arg |-> <<>>,
           hr |-> [handled |-> FALSE, err |-> FALSE],
           env |-> [reviewOk |-> FALSE, responses |-> <<>>, newResultOk |-> FALSE,
                    violationsOk |-> FALSE, convertOk |-> FALSE],
           out |-> Outcome("none", "", NoResult, <<>>, <<>>, <<>>)]

NoHR == [handled |-> FALSE, err |-> FALSE]

(* json.Unmarshal into map[string]interface{}: text that is no JSON object fails *)
JSONTexts == [valid : {FALSE}, object : {<<>>}] \cup [valid : {TRUE}, object : Assets]

(* Calls are synchronous and independent: one call is followed until it ends *)
ReviewUnmarshalledJSON ==
    /\ call.op = "none"
    /\ \E asset \in Assets, env \in Envs :
        call' = [op |-> "ReviewUnmarshalledJSON", input |-> asset, funnel |-> TRUE,
                 arg |-> asset, hr |-> NoHR,
                 env |-> env, out |-> reviewUnmarshalledJSON(validator, asset, env)]
    /\ UNCHANGED <<validator, bootVars>>

ReviewJSON ==
    /\ call.op = "none"
    /\ \E data \in JSONTexts, env \in Envs :
        call' = [op |-> "ReviewJSON", input |-> data, funnel |-> data.valid,
                 arg |-> data.object, hr |-> NoHR, env |-> env,
                 out |-> IF data.valid
                         THEN reviewUnmarshalledJSON(validator, data.object, env)
                         ELSE Outcome("error", "unmarshal", NoResult, <<>>, <<>>, <<>>)]
    /\ UNCHANGED <<validator, bootVars>>

ReviewTFResourceChange ==
    /\ call.op = "none"
    /\ \E inputResource \in TFResources, env \in TFEnvs :
        \E hr \in HandleReviewOutcomes(inputResource) :
            call' = [op |-> "ReviewTFResourceChange", input |-> inputResource,
                     funnel |-> FALSE, arg |-> <<>>, hr |-> hr, env |-> env,
                     out |-> reviewTFResourceChange(validator, inputResource, hr, env)]
    /\ UNCHANGED <<validator, bootVars>>

ReviewAsset ==
    /\ call.op = "none"
    /\ \E asset \in TypedAssets, env \in AssetEnvs :
        LET r == reviewAsset(validator, asset, env) IN
        call' = [op |-> "ReviewAsset", input |-> asset, funnel |-> r.funnel,
                 arg |-> r.arg, hr |-> NoHR, env |-> env, out |-> r.out]
    /\ UNCHANGED <<validator, bootVars>>

(* The caller has taken the outcome; the Validator is ready for the next call *)
Return ==
    /\ call.op # "none"
    /\ call' = NoCall
    /\ UNCHANGED <<validator, bootVars>>

-----------------------------------------------------------------------------
(* Construction: NewValidatorFromConfig calls newCFClient for GCP, K8S, TF *)
Domains == <<"GCP", "K8S", "TF">>
TargetNameOf(d) ==
    IF d = "GCP" THEN GCPTargetName ELSE IF d = "K8S" THEN K8STargetName ELSE TFTargetName

NoClient == Client("")

(* configs.Configuration: the number of templates and constraints per domain; *)
(* whether one loads is the engine's answer to AddTemplate / AddConstraint    *)
Configurations ==
    [{"GCP", "K8S", "TF"} -> [templates : 0..MaxTemplates, constraints : 0..MaxConstraints]]

NoAdded == [d \in {"GCP", "K8S", "TF"} |-> [created |-> 0, templates |-> 0, constraints |-> 0]]
NoClients == [d \in {"GCP", "K8S", "TF"} |-> NoClient]

NoRet == [validator |-> FALSE, err |-> "", domain |-> "", causes |-> <<>>]

(* Mutant of afterTemplates: template errors do not stop the bootstrap *)
afterTemplates_continue(es) == "constraints"

(* newCFClient, after the template loop: abort when any template failed *)
afterTemplates(es) == IF es # <<>> THEN "fail" ELSE "constraints"

(* newCFClient, after the constraint loop *)
afterConstraints(es) == IF es # <<>> THEN "fail" ELSE "client"

(* NewValidatorFromConfig, on the error of newCFClient for domain d *)
onClientError(d, es) ==
    [validator |-> FALSE, err |-> "unable to set up client", domain |-> d, causes |-> es]

(* Mutant of afterClient: the Validator is returned after the K8S client *)
afterClient_skipTF(n) == IF n < Len(Domains) - 1 THEN "new" ELSE "done"

(* NewValidatorFromConfig, after newCFClient for domain number n returned a client *)
afterClient(n) == IF n < Len(Domains) THEN "new" ELSE "done"

(* newCFClient: local.New and cfclient.NewClient *)
NewClient ==
    /\ pc = "new"
    /\ \E driverOk \in BOOLEAN, clientOk \in BOOLEAN :
        IF ~driverOk
        THEN /\ pc' = "done"
             /\ ret' = onClientError(Domains[dom], <<<<"driver", 0>>>>)
             /\ UNCHANGED <<idx, errs>>
        ELSE IF ~clientOk
        THEN /\ pc' = "done"
             /\ ret' = onClientError(Domains[dom], <<<<"client", 0>>>>)
             /\ UNCHANGED <<idx, errs>>
        ELSE /\ pc' = "templates"
             /\ idx' = 1
             /\ errs' = <<>>
             /\ ret' = ret
    /\ added' = [added EXCEPT ![Domains[dom]].created = @ + 1]
    /\ UNCHANGED <<config, dom, clients, validator, call>>

(* newCFClient: one iteration of the template loop *)
AddTemplate ==
    /\ pc = "templates"
    /\ idx <= config[Domains[dom]].templates
    /\ \E ok \in BOOLEAN :
        errs' = IF ok THEN errs ELSE Append(errs, <<"template", idx>>)
    /\ added' = [added EXCEPT ![Domains[dom]].templates = @ + 1]
    /\ idx' = idx + 1
    /\ UNCHANGED <<pc, config, dom, clients, ret, validator, call>>

(* newCFClient: the check after the template loop *)
TemplatesLoaded ==
    /\ pc = "templates"
    /\ idx > config[Domains[dom]].templates
    /\ IF afterTemplates(errs) = "fail"
       THEN /\ pc' = "done"
            /\ ret' = onClientError(Domains[dom], errs)
            /\ UNCHANGED idx
       ELSE /\ pc' = "constraints"
            /\ idx' = 1
            /\ ret' = ret
    /\ UNCHANGED <<config, dom, errs, added, clients, validator, call>>

(* newCFClient: one iteration of the constraint loop *)
AddConstraint ==
    /\ pc = "constraints"
    /\ idx <= config[Domains[dom]].constraints
    /\ \E ok \in BOOLEAN :
        errs' = IF ok THEN errs ELSE Append(errs, <<"constraint", idx>>)
    /\ added' = [added EXCEPT ![Domains[dom]].constraints = @ + 1]
    /\ idx' = idx + 1
    /\ UNCHANGED <<pc, config, dom, clients, ret, validator, call>>

(* newCFClient returns; NewValidatorFromConfig goes on or returns *)
ConstraintsLoaded ==
    /\ pc = "constraints"
    /\ idx > config[Domains[dom]].constraints
    /\ IF afterConstraints(errs) = "fail"
       THEN /\ pc' = "done"
            /\ ret' = onClientError(Domains[dom], errs)
            /\ UNCHANGED <<dom, clients, validator>>
       ELSE LET cs == [clients EXCEPT ![Domains[dom]] = Client(TargetNameOf(Domains[dom]))] IN
            /\ clients' = cs
            /\ pc' = afterClient(dom)
            /\ IF afterClient(dom) = "new"
               THEN /\ dom' = dom + 1
                    /\ UNCHANGED <<ret, validator>>
               ELSE /\ dom' = dom
                    /\ validator' = [gcpCFClient |-> cs["GCP"], k8sCFClient |-> cs["K8S"],
                                     tfCFClient |-> cs["TF"]]
                    /\ ret' = [NoRet EXCEPT !.validator = TRUE]
    /\ UNCHANGED <<config, idx, errs, added, call>>

InitBoot ==
    /\ validator = NoValidator
    /\ call = NoCall
    /\ pc = "new"
    /\ config \in Configurations
    /\ dom = 1
    /\ idx = 0
    /\ errs = <<>>
    /\ added = NoAdded
    /\ clients = NoClients
    /\ ret = NoRet

NextBoot == NewClient \/ AddTemplate \/ TemplatesLoaded \/ AddConstraint \/ ConstraintsLoaded

SpecBoot == InitBoot /\ [][NextBoot]_vars

Init ==
    /\ validator = [gcpCFClient |-> Client(GCPTargetName),
                    k8sCFClient |-> Client(K8STargetName),
                    tfCFClient |-> Client(TFTargetName)]
    /\ call = NoCall
    /\ pc = "done"
    /\ config = [d \in {"GCP", "K8S", "TF"} |-> [templates |-> 0, constraints |-> 0]]
    /\ dom = Len(Domains)
    /\ idx = 1
    /\ errs = <<>>
    /\ added = NoAdded
    /\ clients = [d \in {"GCP", "K8S", "TF"} |-> Client(TargetNameOf(d))]
    /\ ret = [NoRet EXCEPT !.validator = TRUE]

Next ==
    \/ ReviewAsset
    \/ ReviewUnmarshalledJSON
    \/ ReviewJSON
    \/ ReviewTFResourceChange
    \/ Return

Spec == Init /\ [][Next]_vars

-----------------------------------------------------------------------------
(* Properties of the review entry points (Spec) *)

(* The last call (ReviewUnmarshalledJSON, ReviewJSON or ReviewAsset) went     *)
(* through ReviewUnmarshalledJSON with an asset map                           *)
AssetCall == call.funnel

(* The map ReviewUnmarshalledJSON was given *)
InAsset == call.arg

TFCall == call.op = "ReviewTFResourceChange"

WellTypedAncestors(a) == a.ancestors.kind = "slice"
WellTypedPath(a) == a.ancestry_path.kind = "string"

(* C1: sequence precedence. Whenever the asset given to ReviewUnmarshalledJSON *)
(* has a well-typed "ancestors" sequence, ancestry resolution succeeds and     *)
(* "ancestry_path" afterwards is AncestryPath(ancestors), whatever it held     *)
(* before (absent, a string, or an ill-typed value).                           *)
C1_SequencePrecedence ==
    AssetCall /\ WellTypedAncestors(InAsset) =>
        /\ call.out.err # "ancestry"
        /\ call.out.asset.ancestry_path.kind = "string"
        /\ call.out.asset.ancestry_path.val = AncestryPath(InAsset.ancestors.val)

C1_Witness ==
    /\ AssetCall
    /\ WellTypedAncestors(InAsset)
    /\ Len(InAsset.ancestors.val) = 2
    /\ WellTypedPath(InAsset)
    /\ InAsset.ancestry_path.val # AncestryPath(InAsset.ancestors.val)
    /\ call.out.asset.ancestry_path.val = <<"organization", "1", "project", "3">>

(* C2: an asset with neither a well-typed "ancestors" sequence nor a          *)
(* well-typed "ancestry_path" string makes ReviewUnmarshalledJSON (and         *)
(* ReviewJSON) fail with the ancestry-missing error, with no Result and no     *)
(* violations.                                                                 *)
C2_NoAncestryFails ==
    AssetCall /\ ~WellTypedAncestors(InAsset) /\ ~WellTypedPath(InAsset) =>
        /\ call.out.returned = "error"
        /\ call.out.err = "ancestry"
        /\ call.out.result = NoResult
        /\ call.out.violations = <<>>

C2_Witness ==
    /\ call.op = "ReviewJSON"
    /\ call.input.valid
    /\ InAsset.ancestors.kind = "other"
    /\ InAsset.ancestry_path.kind = "absent"
    /\ InAsset.name.kind = "string"
    /\ call.env.reviewOk
    /\ call.out.returned = "error"

(* C3: for a Kubernetes-shaped asset whose conversion and evaluation succeed,  *)
(* the identifier in the returned Result is the display name of the converted  *)
(* Kubernetes object.                                                          *)
C3_K8SIdentifierIsObjectName ==
    AssetCall /\ call.out.returned \in {"result", "violations"}
        /\ IsK8S(call.out.asset) =>
        call.out.result.name = call.out.result.reviewed.name

(* C4: when ancestry resolves, adaptation succeeds and the evaluation client   *)
(* succeeds but "name" is absent or not a string, the call returns an error    *)
(* with no Result; a review call ends only by returning a result or an error.  *)
C4_MissingNameReturnsError ==
    /\ call.op # "none" => call.out.returned \in {"result", "violations", "error"}
    /\ AssetCall /\ ~fixAncestry(InAsset).err /\ call.env.reviewOk
         /\ (IsK8S(InAsset) => ~ConvertCAIToK8s(InAsset).err)
         /\ InAsset.name.kind # "string" =>
            /\ call.out.returned = "error"
            /\ call.out.result = NoResult
            /\ call.out.violations = <<>>

(* C5: ReviewTFResourceChange on an input with no "address" field fails with   *)
(* the "Unhandled resource" error, and no Review call was issued.              *)
C5_NoAddressUnhandled ==
    TFCall /\ call.input.address.kind = "absent" =>
        /\ call.out.returned = "error"
        /\ call.out.err = "unhandled"
        /\ call.out.reviews = <<>>

C5_Witness ==
    /\ TFCall
    /\ call.input.address.kind = "absent"
    /\ call.env.reviewOk
    /\ call.out.returned = "error"

(* C8: whenever a resource is dispatched to an evaluation client, it carries   *)
(* a non-empty "ancestry_path" string; an input that yields no non-empty path  *)
(* (empty "ancestors" sequence, empty "ancestry_path" string) fails instead.   *)
C8_NonEmptyAncestryAtDispatch ==
    AssetCall /\ call.out.reviews # <<>> =>
        /\ call.out.asset.ancestry_path.kind = "string"
        /\ call.out.asset.ancestry_path.val # EmptyString

(* C9: whenever HandleReview reports an error, with either value of its        *)
(* handled flag, ReviewTFResourceChange returns an error and the Terraform     *)
(* client's Review is not invoked.                                             *)
C9_HandleReviewErrorStops ==
    TFCall /\ call.hr.err =>
        /\ call.out.returned = "error"
        /\ call.out.reviews = <<>>

(* C10: dispatch routing. ReviewUnmarshalledJSON issues at most one Review:    *)
(* to the Kubernetes client exactly when the normalized asset is IsK8S (and    *)
(* its conversion succeeds), otherwise to the GCP client, never to the         *)
(* Terraform client, and none when ancestry resolution or conversion fails.    *)
(* ReviewTFResourceChange issues at most one Review, only to the Terraform     *)
(* client. The target name in the Result is that of the client called.         *)
C10_DispatchRouting ==
    /\ call.op # "none" => Len(call.out.reviews) <= 1
    /\ AssetCall =>
        LET noDispatch == \/ fixAncestry(InAsset).err
                          \/ IsK8S(call.out.asset) /\ ConvertCAIToK8s(call.out.asset).err
        IN  /\ noDispatch <=> call.out.reviews = <<>>
            /\ call.out.reviews # <<>> =>
                 call.out.reviews[1] = IF IsK8S(call.out.asset)
                                       THEN validator.k8sCFClient.target
                                       ELSE validator.gcpCFClient.target
            /\ call.out.reviews # <<>> => call.out.reviews[1] # validator.tfCFClient.target
    /\ TFCall /\ call.out.reviews # <<>> =>
         call.out.reviews[1] = validator.tfCFClient.target
    /\ call.out.returned \in {"result", "violations"} =>
         /\ call.out.reviews # <<>>
         /\ call.out.result.target = call.out.reviews[1]

C10_Witness ==
    /\ AssetCall
    /\ IsK8S(call.out.asset)
    /\ call.out.returned = "result"
    /\ call.out.reviews = <<K8STargetName>>
    /\ call.out.result.target = K8STargetName

-----------------------------------------------------------------------------
(* Properties of construction (SpecBoot) *)

HasTemplateFailure(es) == \E i \in 1..Len(es) : es[i][1] = "template"

(* C6: in newCFClient, once an AddTemplate call has failed for a domain, no    *)
(* AddConstraint call is made for that domain and no client handle is          *)
(* returned for it: the bootstrap ends with the aggregated error that holds    *)
(* every failed template.                                                      *)
C6_TemplateFailureAborts ==
    /\ pc \in {"templates", "constraints"} /\ HasTemplateFailure(errs) =>
        /\ pc = "templates"
        /\ added[Domains[dom]].constraints = 0
        /\ clients[Domains[dom]] = NoClient
    /\ pc = "done" /\ HasTemplateFailure(errs) =>
        /\ ~ret.validator
        /\ ret.err # ""
        /\ ret.causes = errs
        /\ \A i \in 1..Len(errs) : errs[i][1] = "template"
        /\ added[ret.domain].constraints = 0
        /\ clients[ret.domain] = NoClient
        /\ validator = NoValidator

C6_Witness ==
    /\ pc = "done"
    /\ ret.domain = "K8S"
    /\ config["K8S"].templates = 2
    /\ config["K8S"].constraints = 2
    /\ added["K8S"].templates = 2
    /\ ret.causes = <<<<"template", 1>>>>

(* C7: NewValidatorFromConfig returns a Validator only when the bootstrap of   *)
(* GCP, K8S and TF all succeeded, and then all three handles are set; when a   *)
(* domain fails it returns no Validator and an error naming that domain, and   *)
(* no later domain is bootstrapped.                                            *)
C7_AllOrNothing ==
    /\ ret.validator =>
        /\ pc = "done"
        /\ ret.err = ""
        /\ \A d \in {"GCP", "K8S", "TF"} : clients[d] = Client(TargetNameOf(d))
        /\ validator = [gcpCFClient |-> clients["GCP"], k8sCFClient |-> clients["K8S"],
                        tfCFClient |-> clients["TF"]]
    /\ validator # NoValidator => ret.validator
    /\ pc = "done" /\ ~ret.validator =>
        /\ ret.err # ""
        /\ validator = NoValidator
        /\ \E n \in 1..Len(Domains) :
            /\ ret.domain = Domains[n]
            /\ clients[Domains[n]] = NoClient
            /\ added[Domains[n]].created = 1
            /\ \A m \in 1..(n - 1) : clients[Domains[m]] # NoClient
            /\ \A m \in (n + 1)..Len(Domains) :
                /\ clients[Domains[m]] = NoClient
                /\ added[Domains[m]] = [created |-> 0, templates |-> 0, constraints |-> 0]

C7_Witness ==
    /\ pc = "done"
    /\ ~ret.validator
    /\ ret.domain = "K8S"
    /\ clients["GCP"] = Client(GCPTargetName)
    /\ config["TF"].templates > 0
    /\ added["TF"].created = 0

====
